---- MODULE Spec2Model ----
(***************************************************************************)
(* Model of transcripts.py: the identifier resolver (extract_video_id),    *)
(* the transcript retriever (fetch_transcript), the persistence step       *)
(* (save_transcript_to_json) and the interactive loop (__main__).          *)
(*                                                                         *)
(* A Python str is a sequence of one-character strings; Python's None is   *)
(* the one-element sequence None, which is not a sequence of characters.   *)
(* Exception messages and log texts are TLA+ strings.                      *)
(***************************************************************************)
EXTENDS Integers, Sequences, FiniteSets

VARIABLES pc, raw_line, input_string, video_id, fallback_transcript,
          transcript_data, calls, written, printed, stopReason, unexpected

vars == <<pc, raw_line, input_string, video_id, fallback_transcript,
          transcript_data, calls, written, printed, stopReason, unexpected>>

-----------------------------------------------------------------------------
(* Bounds of the transcript service's answers.                             *)

MaxSegments == 2

MaxTranscripts == 2

-----------------------------------------------------------------------------
(* Python values.                                                          *)

None == <<"None">>

UpperCase == <<"A","B","C","D","E","F","G","H","I","J","K","L","M",
               "N","O","P","Q","R","S","T","U","V","W","X","Y","Z">>

LowerCase == <<"a","b","c","d","e","f","g","h","i","j","k","l","m",
               "n","o","p","q","r","s","t","u","v","w","x","y","z">>

Digits == {"0","1","2","3","4","5","6","7","8","9"}

Range(s) == {s[i] : i \in 1..Len(s)}

Letters == Range(UpperCase) \cup Range(LowerCase)

\* str.isalnum on one character
IsAlnumChar(c) == c \in Letters \cup Digits

\* str.isalnum: every character alphanumeric and at least one character
isalnum(s) == Len(s) > 0 /\ \A i \in 1..Len(s) : IsAlnumChar(s[i])

LowerChar(c) ==
    IF \E i \in 1..26 : UpperCase[i] = c
    THEN LowerCase[CHOOSE i \in 1..26 : UpperCase[i] = c]
    ELSE c

\* str.lower
lower(s) == [i \in 1..Len(s) |-> LowerChar(s[i])]

Whitespace == {" "}

\* s[from:] with a 1-based first index
Tail_(s, from) == IF from > Len(s) THEN <<>> ELSE SubSeq(s, from, Len(s))

\* str.lstrip(chars)
lstrip(s, chars) ==
    IF \A i \in 1..Len(s) : s[i] \in chars
    THEN <<>>
    ELSE Tail_(s, CHOOSE i \in 1..Len(s) :
                      s[i] \notin chars /\ \A j \in 1..(i - 1) : s[j] \in chars)

\* str.rstrip(chars)
rstrip(s, chars) ==
    IF \A i \in 1..Len(s) : s[i] \in chars
    THEN <<>>
    ELSE SubSeq(s, 1, CHOOSE i \in 1..Len(s) :
                      s[i] \notin chars /\ \A j \in (i + 1)..Len(s) : s[j] \in chars)

\* str.strip()
strip(s) == rstrip(lstrip(s, Whitespace), Whitespace)

\* str.find(c) + 1: the 1-based index of the first c in s, 0 when absent
find(s, c) ==
    IF \E i \in 1..Len(s) : s[i] = c
    THEN CHOOSE i \in 1..Len(s) : s[i] = c /\ \A j \in 1..(i - 1) : s[j] # c
    ELSE 0

\* str.rfind(c) + 1
rfind(s, c) ==
    IF \E i \in 1..Len(s) : s[i] = c
    THEN CHOOSE i \in 1..Len(s) : s[i] = c /\ \A j \in (i + 1)..Len(s) : s[j] # c
    ELSE 0

\* the 1-based index of the first character of s that is in chars, Len(s)+1 when none
findAny(s, chars) ==
    IF \E i \in 1..Len(s) : s[i] \in chars
    THEN CHOOSE i \in 1..Len(s) : s[i] \in chars /\ \A j \in 1..(i - 1) : s[j] \notin chars
    ELSE Len(s) + 1

\* str.startswith
startswith(s, prefix) ==
    Len(s) >= Len(prefix) /\ SubSeq(s, 1, Len(prefix)) = prefix

RECURSIVE split(_, _)
\* str.split(sep) for a one-character separator
split(s, sep) ==
    IF find(s, sep) = 0
    THEN <<s>>
    ELSE <<SubSeq(s, 1, find(s, sep) - 1)>> \o split(Tail_(s, find(s, sep) + 1), sep)

RECURSIVE join(_, _)
\* sep.join(parts)
join(sep, parts) ==
    IF Len(parts) = 0 THEN <<>>
    ELSE IF Len(parts) = 1 THEN parts[1]
    ELSE parts[1] \o sep \o join(sep, Tail(parts))

-----------------------------------------------------------------------------
(* urllib.parse as extract_video_id uses it.  The inputs contain no ';',   *)
(* no '%' and no netloc with both brackets, so parameter splitting,        *)
(* percent-decoding and IPv6 literal validation are not modelled.          *)

SchemeChars == Letters \cup Digits \cup {"+", "-", "."}

\* urlsplit: [raised, scheme, netloc, path, query, fragment]
urlsplit(u) ==
    LET url0   == lstrip(u, Whitespace)
        colon  == find(url0, ":")
        hasSch == /\ colon > 1
                  /\ url0[1] \in Letters
                  /\ \A i \in 1..(colon - 1) : url0[i] \in SchemeChars
        scheme == IF hasSch THEN lower(SubSeq(url0, 1, colon - 1)) ELSE <<>>
        url1   == IF hasSch THEN Tail_(url0, colon + 1) ELSE url0
        hasNet == startswith(url1, <<"/", "/">>)
        after  == Tail_(url1, 3)
        delim  == findAny(after, {"/", "?", "#"})
        netloc == IF hasNet THEN SubSeq(after, 1, delim - 1) ELSE <<>>
        url2   == IF hasNet THEN Tail_(after, delim) ELSE url1
        hash   == find(url2, "#")
        url3   == IF hash > 0 THEN SubSeq(url2, 1, hash - 1) ELSE url2
        frag   == IF hash > 0 THEN Tail_(url2, hash + 1) ELSE <<>>
        qm     == find(url3, "?")
        path   == IF qm > 0 THEN SubSeq(url3, 1, qm - 1) ELSE url3
        query  == IF qm > 0 THEN Tail_(url3, qm + 1) ELSE <<>>
        badBr  == ("[" \in Range(netloc)) # ("]" \in Range(netloc))
    IN  [raised |-> badBr, scheme |-> scheme, netloc |-> netloc,
         path |-> path, query |-> query, fragment |-> frag]

\* urlparse
urlparse(u) == urlsplit(u)

\* ParseResult.hostname
hostname(parsed_url) ==
    LET netloc   == parsed_url.netloc
        hostinfo == Tail_(netloc, rfind(netloc, "@") + 1)
        colon    == find(hostinfo, ":")
        host     == IF colon > 0 THEN SubSeq(hostinfo, 1, colon - 1) ELSE hostinfo
    IN  IF Len(host) = 0 THEN None ELSE lower(host)

\* unquote(s.replace('+', ' ')) on text without '%'
unquote_plus(s) == [i \in 1..Len(s) |-> IF s[i] = "+" THEN " " ELSE s[i]]

RECURSIVE qsl_pairs(_)
\* the (name, value) pairs of the fields of a query string, blank values dropped
qsl_pairs(fields) ==
    IF Len(fields) = 0 THEN <<>>
    ELSE LET f  == fields[1]
             eq == find(f, "=")
         IN  IF Len(f) = 0 \/ eq = 0 \/ eq = Len(f)
             THEN qsl_pairs(Tail(fields))
             ELSE << <<unquote_plus(SubSeq(f, 1, eq - 1)),
                       unquote_plus(Tail_(f, eq + 1))>> >>
                  \o qsl_pairs(Tail(fields))

\* parse_qsl
parse_qsl(qs) == IF Len(qs) = 0 THEN <<>> ELSE qsl_pairs(split(qs, "&"))

\* parse_qs(query).get(key, [None])[0]
query_get(qs, key) ==
    LET pairs == parse_qsl(qs)
    IN  IF \E i \in 1..Len(pairs) : pairs[i][1] = key
        THEN pairs[CHOOSE i \in 1..Len(pairs) :
                       pairs[i][1] = key /\ \A j \in 1..(i - 1) : pairs[j][1] # key][2]
        ELSE None

-----------------------------------------------------------------------------
(* extract_video_id                                                        *)

IdLen == 11

WwwYoutubeCom == <<"w","w","w",".","y","o","u","t","u","b","e",".","c","o","m">>

YoutubeCom == <<"y","o","u","t","u","b","e",".","c","o","m">>

YoutuBe == <<"y","o","u","t","u",".","b","e">>

EmbedPrefix == <<"/","e","m","b","e","d","/">>

\* extract_video_id without the test of line 28
extract_video_id_url_only(youtube_url_or_id) ==
    LET parsed_url == urlparse(youtube_url_or_id)
    IN  IF parsed_url.raised
        THEN None
        ELSE IF hostname(parsed_url) \in {WwwYoutubeCom, YoutubeCom}
        THEN query_get(parsed_url.query, <<"v">>)
        ELSE IF hostname(parsed_url) = YoutuBe
        THEN lstrip(parsed_url.path, {"/"})
        ELSE None

extract_video_id(youtube_url_or_id) ==
    IF Len(youtube_url_or_id) = IdLen /\ isalnum(youtube_url_or_id)
    THEN youtube_url_or_id
    ELSE LET parsed_url == urlparse(youtube_url_or_id)
         IN  IF parsed_url.raised
             THEN None
             ELSE IF hostname(parsed_url) \in {WwwYoutubeCom, YoutubeCom}
             THEN query_get(parsed_url.query, <<"v">>)
             ELSE IF hostname(parsed_url) = YoutuBe
             THEN lstrip(parsed_url.path, {"/"})
             ELSE IF hostname(parsed_url) = WwwYoutubeCom
                     /\ startswith(parsed_url.path, EmbedPrefix)
             THEN split(parsed_url.path, "/")[3]
             ELSE None

-----------------------------------------------------------------------------
(* Exceptions.  Every type below but KeyboardInterrupt is a subclass of    *)
(* Exception.                                                              *)

Exc(type, msg) == [type |-> type, msg |-> msg]

NoException == Exc("none", "")

NoTranscriptFound == Exc("NoTranscriptFound", "No transcripts were found")

TranscriptsDisabled == Exc("TranscriptsDisabled", "Subtitles are disabled for this video")

ConnectionError == Exc("ConnectionError", "Connection failed")

EOFError == Exc("EOFError", "EOF when reading a line")

OSError == Exc("OSError", "Permission denied")

KeyboardInterrupt == Exc("KeyboardInterrupt", "")

ExceptionTypes == {"NoTranscriptFound", "TranscriptsDisabled", "ConnectionError",
                   "EOFError", "OSError"}

-----------------------------------------------------------------------------
(* The transcript service (youtube_transcript_api), an external            *)
(* collaborator: each call answers with a result or raises.                *)

Texts == {<<"h","i">>, <<"o","k">>}

RECURSIVE SeqsUpTo(_, _)
SeqsUpTo(S, n) ==
    IF n = 0 THEN {<<>>}
    ELSE SeqsUpTo(S, n - 1) \cup
         {Append(s, x) : s \in {t \in SeqsUpTo(S, n - 1) : Len(t) = n - 1}, x \in S}

\* a transcript: a list of segments {text, start, duration}
SegmentLists == SeqsUpTo({[text |-> t] : t \in Texts}, MaxSegments)

\* the transcripts a video can have, each with a language name and a language code
Descriptors == {[language |-> "German", language_code |-> "de"],
                [language |-> "French", language_code |-> "fr"]}

TranscriptLists == SeqsUpTo(Descriptors, MaxTranscripts)

Returned(v) == [ok |-> TRUE, value |-> v]

Raised(e) == [ok |-> FALSE, exc |-> e]

ServiceExceptions == {NoTranscriptFound, TranscriptsDisabled, ConnectionError}

\* YouTubeTranscriptApi.get_transcript(video_id, languages=['en'])
GetTranscriptOutcomes ==
    {Returned(s) : s \in SegmentLists} \cup {Raised(e) : e \in ServiceExceptions}

\* YouTubeTranscriptApi.list_transcripts(video_id)
ListTranscriptsOutcomes ==
    {Returned(l) : l \in TranscriptLists} \cup
    {Raised(e) : e \in {TranscriptsDisabled, ConnectionError}}

\* Transcript.fetch()
FetchOutcomes ==
    {Returned(s) : s \in SegmentLists} \cup
    {Raised(e) : e \in {TranscriptsDisabled, ConnectionError}}

\* TranscriptList.find_transcript(language_codes): the transcript of the first
\* requested code that some listed transcript has; raises when there is none
find_transcript(transcript_list, language_codes) ==
    LET hit(c) == \E i \in 1..Len(transcript_list) : transcript_list[i].language_code = c
        first(c) == transcript_list[CHOOSE i \in 1..Len(transcript_list) :
                        /\ transcript_list[i].language_code = c
                        /\ \A j \in 1..(i - 1) : transcript_list[j].language_code # c]
    IN  IF \E k \in 1..Len(language_codes) : hit(language_codes[k])
        THEN Returned(first(language_codes[CHOOSE k \in 1..Len(language_codes) :
                        /\ hit(language_codes[k])
                        /\ \A j \in 1..(k - 1) : ~hit(language_codes[j])]))
        ELSE Raised(NoTranscriptFound)

\* datetime.now().isoformat()
Timestamps == {"2024-01-01T10:00:00.000001", "2024-01-01T10:00:05.000002"}

-----------------------------------------------------------------------------
(* fetch_transcript                                                        *)

InvalidInputMsg == "Invalid YouTube URL or video ID."

DisabledMsg == "Transcripts are disabled for this video."

WatchUrlPrefix == <<"h","t","t","p","s",":","/","/">> \o WwwYoutubeCom
                  \o <<"/","w","a","t","c","h","?","v","=">>

\* Python truthiness of an Optional[str]
Truthy(v) == v # None /\ Len(v) > 0

\* '\n'.join([item['text'] for item in transcript])
transcript_text(transcript) ==
    join(<<"\n">>, [i \in 1..Len(transcript) |-> transcript[i].text])

\* the dict of lines 75-81 and 92-98
TranscriptRecord(vid, language, transcript, now) ==
    [video_id |-> vid,
     language |-> language,
     transcript |-> transcript_text(transcript),
     url |-> WatchUrlPrefix \o vid,
     date_fetched |-> now]

\* the language stored by the fallback branch (line 94)
fallback_language(t) == t.language

\* the resolution step without the test of line 67
resolve_step_no_check(vid) == [next |-> "get_transcript"]

\* the result of the resolution step (lines 66-69): an error record, or go on
resolve_step(vid) ==
    IF ~Truthy(vid)
    THEN [next |-> "return", data |-> [error |-> InvalidInputMsg]]
    ELSE [next |-> "get_transcript"]

\* the outer try without the handler of line 105
outer_except_no_catch_all(e, vid) ==
    IF e.type = "NoTranscriptFound"
    THEN [next |-> "list_transcripts"]
    ELSE [next |-> "raise", exc |-> e]

\* the outer try falling back to the enumeration on every failure
outer_except_always_fallback(e, vid) ==
    IF e.type \in ExceptionTypes
    THEN [next |-> "list_transcripts"]
    ELSE [next |-> "raise", exc |-> e]

\* the handlers of the outer try (lines 82 and 105-107)
outer_except(e, vid) ==
    IF e.type = "NoTranscriptFound"
    THEN [next |-> "list_transcripts"]
    ELSE IF e.type \in ExceptionTypes
    THEN [next |-> "return",
          data |-> [error |-> "Error fetching transcript: " \o e.msg, video_id |-> vid]]
    ELSE [next |-> "raise", exc |-> e]

\* the handlers of the inner try (lines 99-104)
inner_except(e, vid) ==
    IF e.type = "TranscriptsDisabled"
    THEN [next |-> "return", data |-> [error |-> DisabledMsg, video_id |-> vid]]
    ELSE IF e.type \in ExceptionTypes
    THEN [next |-> "return",
          data |-> [error |-> "Error fetching alternative transcript: " \o e.msg,
                    video_id |-> vid]]
    ELSE [next |-> "raise", exc |-> e]

-----------------------------------------------------------------------------
(* save_transcript_to_json                                                 *)

TRANSCRIPTS_FOLDER == <<"T","r","a","n","s","c","r","i","p","t","s">>

Unknown == <<"u","n","k","n","o","w","n">>

\* os.path.join(TRANSCRIPTS_FOLDER, f"{video_id}.json")
filename_of(data) ==
    TRANSCRIPTS_FOLDER \o <<"/">>
    \o (IF "video_id" \in DOMAIN data THEN data.video_id ELSE Unknown)
    \o <<".","j","s","o","n">>

NothingWritten == [status |-> "none"]

\* save_transcript_to_json without the try of line 122
save_transcript_to_json_no_try(data, io) ==
    IF io.ok
    THEN [raised |-> FALSE,
          written |-> [status |-> "ok", filename |-> filename_of(data), data |-> data]]
    ELSE [raised |-> TRUE, exc |-> io.exc]

\* io is what open/json.dump does: Returned or Raised; the result is what the
\* function does to its caller and to the folder
save_transcript_to_json(data, io) ==
    IF io.ok
    THEN [raised |-> FALSE,
          written |-> [status |-> "ok", filename |-> filename_of(data), data |-> data]]
    ELSE IF io.exc.type \in ExceptionTypes
    THEN [raised |-> FALSE,
          written |-> [status |-> "failed", filename |-> filename_of(data),
                       log |-> "Error saving transcript to file: " \o io.exc.msg]]
    ELSE [raised |-> TRUE, exc |-> io.exc]

IoOutcomes == {Returned("written"), Raised(OSError)}

-----------------------------------------------------------------------------
(* __main__: the interactive loop                                          *)

ExitToken == <<"e","x","i","t">>

\* the loop without the handler of line 146
main_except_interrupt_only(e) ==
    IF e.type = "KeyboardInterrupt" THEN "break" ELSE "propagate"

\* which handler of lines 143-147 takes an exception raised in the loop body
main_except(e) ==
    IF e.type = "KeyboardInterrupt" THEN "break"
    ELSE IF e.type \in ExceptionTypes THEN "continue"
    ELSE "propagate"

\* the loop body raised e
MainRaise(e) ==
    LET h == main_except(e)
    IN  /\ pc' = IF h = "continue" THEN "next" ELSE "stopped"
        /\ stopReason' = CASE h = "break" -> "interrupt"
                           [] h = "continue" -> stopReason
                           [] OTHER -> "crash"
        /\ unexpected' = IF h = "continue" THEN e ELSE unexpected

\* a step of fetch_transcript ends in r: a return, a raise or the next call
FetchStep(r) ==
    CASE r.next = "return" ->
           /\ transcript_data' = r.data
           /\ pc' = "save"
           /\ UNCHANGED <<stopReason, unexpected>>
      [] r.next = "raise" ->
           /\ MainRaise(r.exc)
           /\ UNCHANGED transcript_data
      [] OTHER ->
           /\ pc' = r.next
           /\ UNCHANGED <<transcript_data, stopReason, unexpected>>

NoData == [x \in {} |-> x]

NoTranscript == [language |-> "", language_code |-> ""]

-----------------------------------------------------------------------------
(* The lines the user can type.                                            *)

Https == <<"h","t","t","p","s",":","/","/">>

SampleId == <<"A","B","C","D","E","F","G","H","I","J","K">>

OtherId == <<"d","Q","w","4","w","9","W","g","X","c","Q">>

Schemes == {Https, <<>>}

Hosts == {WwwYoutubeCom, YoutubeCom, YoutuBe,
          <<"Y","o","u","T","u",".","B","E">>,
          <<"v","i","m","e","o",".","c","o","m">>,
          <<"[">> \o YoutuBe}

Paths == {<<>>, <<"/">>, <<"/","w","a","t","c","h">>, <<"/">> \o SampleId,
          <<"/","a","b","c">>, EmbedPrefix \o SampleId}

Queries == {<<>>,
            <<"?","v","=">> \o SampleId,
            <<"?","v","=">>,
            <<"?","t","=","1","&","v","=","a","b","c">>,
            <<"?","v","=","a","+","b","&","v","=">> \o OtherId}

Urls == {s \o h \o p \o q : s \in Schemes, h \in Hosts, p \in Paths, q \in Queries}

Lines == Urls \cup
         {SampleId, OtherId, <<" ">> \o SampleId \o <<" ">>,
          <<"a","b","c","-","d","e","f","_","1","2","3">>,
          <<>>, <<" ">>,
          ExitToken, <<"E","X","I","T">>, <<" ","E","x","i","t"," "," ">>,
          <<"e","x","i","t","s">>, <<"e","x"," ","i","t">>}

-----------------------------------------------------------------------------
(* The state machine.                                                      *)

Init ==
    /\ pc = "input"
    /\ raw_line = <<>>
    /\ input_string = <<>>
    /\ video_id = None
    /\ fallback_transcript = NoTranscript
    /\ transcript_data = NoData
    /\ calls = <<>>
    /\ written = NothingWritten
    /\ printed = None
    /\ stopReason = "running"
    /\ unexpected = NoException

\* lines 132-135: input(...).strip(), then the exit test
ReadLine ==
    /\ pc = "input"
    /\ \E line \in Lines :
         /\ raw_line' = line
         /\ input_string' = strip(line)
         /\ IF lower(strip(line)) = ExitToken
            THEN pc' = "stopped" /\ stopReason' = "exit"
            ELSE pc' = "fetch" /\ stopReason' = stopReason
    /\ UNCHANGED <<video_id, fallback_transcript, transcript_data, calls,
                   written, printed, unexpected>>

\* line 132: input() raises at the end of standard input
ReadEOF ==
    /\ pc = "input"
    /\ MainRaise(EOFError)
    /\ UNCHANGED <<raw_line, input_string, video_id, fallback_transcript,
                   transcript_data, calls, written, printed>>

\* an external interrupt signal at any point of the loop
Interrupt ==
    /\ pc # "stopped"
    /\ MainRaise(KeyboardInterrupt)
    /\ UNCHANGED <<raw_line, input_string, video_id, fallback_transcript,
                   transcript_data, calls, written, printed>>

\* lines 137 and 66-69
Resolve ==
    /\ pc = "fetch"
    /\ video_id' = extract_video_id(input_string)
    /\ FetchStep(resolve_step(video_id'))
    /\ UNCHANGED <<raw_line, input_string, fallback_transcript, calls, written, printed>>

\* lines 72-81 and the handlers the outer try selects
GetTranscript ==
    /\ pc = "get_transcript"
    /\ \E o \in GetTranscriptOutcomes, now \in Timestamps :
         /\ calls' = Append(calls, [op |-> "get_transcript", arg |-> video_id,
                                    result |-> IF o.ok THEN "ok" ELSE o.exc.type,
                                    value |-> IF o.ok THEN o.value ELSE <<>>])
         /\ FetchStep(IF o.ok
                      THEN [next |-> "return",
                            data |-> TranscriptRecord(video_id, "en", o.value, now)]
                      ELSE outer_except(o.exc, video_id))
    /\ UNCHANGED <<raw_line, input_string, video_id, fallback_transcript, written, printed>>

\* lines 85-90
ListTranscripts ==
    /\ pc = "list_transcripts"
    /\ \E o \in ListTranscriptsOutcomes :
         /\ calls' = Append(calls, [op |-> "list_transcripts", arg |-> video_id,
                                    result |-> IF o.ok THEN "ok" ELSE o.exc.type,
                                    value |-> IF o.ok THEN o.value ELSE <<>>])
         /\ IF o.ok
            THEN LET transcript_list == o.value
                     found == find_transcript(transcript_list,
                                  [i \in 1..Len(transcript_list) |->
                                       transcript_list[i].language_code])
                 IN  IF found.ok
                     THEN /\ fallback_transcript' = found.value
                          /\ FetchStep([next |-> "fallback_fetch"])
                     ELSE /\ fallback_transcript' = fallback_transcript
                          /\ FetchStep(inner_except(found.exc, video_id))
            ELSE /\ fallback_transcript' = fallback_transcript
                 /\ FetchStep(inner_except(o.exc, video_id))
    /\ UNCHANGED <<raw_line, input_string, video_id, written, printed>>

\* lines 91-98
FallbackFetch ==
    /\ pc = "fallback_fetch"
    /\ \E o \in FetchOutcomes, now \in Timestamps :
         /\ calls' = Append(calls, [op |-> "fetch", arg |-> video_id,
                                    result |-> IF o.ok THEN "ok" ELSE o.exc.type,
                                    value |-> IF o.ok THEN o.value ELSE <<>>])
         /\ FetchStep(IF o.ok
                      THEN [next |-> "return",
                            data |-> TranscriptRecord(video_id,
                                         fallback_language(fallback_transcript),
                                         o.value, now)]
                      ELSE inner_except(o.exc, video_id))
    /\ UNCHANGED <<raw_line, input_string, video_id, fallback_transcript, written, printed>>

\* line 138
Save ==
    /\ pc = "save"
    /\ \E io \in IoOutcomes :
         LET r == save_transcript_to_json(transcript_data, io)
         IN  IF r.raised
             THEN MainRaise(r.exc) /\ written' = written
             ELSE /\ written' = r.written
                  /\ pc' = "print"
                  /\ UNCHANGED <<stopReason, unexpected>>
    /\ UNCHANGED <<raw_line, input_string, video_id, fallback_transcript,
                   transcript_data, calls, printed>>

\* lines 140-142
EchoTranscript ==
    /\ pc = "print"
    /\ printed' = IF "transcript" \in DOMAIN transcript_data
                  THEN transcript_data.transcript
                  ELSE printed
    /\ pc' = "next"
    /\ UNCHANGED <<raw_line, input_string, video_id, fallback_transcript,
                   transcript_data, calls, written, stopReason, unexpected>>

\* line 130: the next iteration; what the finished one left behind is
\* overwritten before it is read again, so it is dropped here
LoopBack ==
    /\ pc = "next"
    /\ pc' = "input"
    /\ raw_line' = <<>>
    /\ input_string' = <<>>
    /\ video_id' = None
    /\ fallback_transcript' = NoTranscript
    /\ transcript_data' = NoData
    /\ calls' = <<>>
    /\ written' = NothingWritten
    /\ printed' = None
    /\ unexpected' = NoException
    /\ UNCHANGED stopReason

Next ==
    \/ ReadLine
    \/ ReadEOF
    \/ Interrupt
    \/ Resolve
    \/ GetTranscript
    \/ ListTranscripts
    \/ FallbackFetch
    \/ Save
    \/ EchoTranscript
    \/ LoopBack

Spec == Init /\ [][Next]_vars

-----------------------------------------------------------------------------
(* Properties.                                                             *)

InFetch == {"fetch", "get_transcript", "list_transcripts", "fallback_fetch"}

\* extract_video_id has set video_id for input_string
Resolved == pc \in {"get_transcript", "list_transcripts", "fallback_fetch", "save", "print"}

\* fetch_transcript has returned transcript_data
HasReturned == pc \in {"save", "print"}

IsSuccessRecord(d) == "transcript" \in DOMAIN d /\ "error" \notin DOMAIN d

IsErrorRecord(d) == "error" \in DOMAIN d /\ "transcript" \notin DOMAIN d

IsCanonical(s) == s # None /\ Len(s) = 11 /\ \A i \in 1..Len(s) : IsAlnumChar(s[i])

ServiceSaid(result) == \E i \in 1..Len(calls) : calls[i].result = result

FetchReturnsOneRecord ==
    pc \in InFetch =>
        \/ pc' \in InFetch
        \/ /\ pc' = "save"
           /\ IsSuccessRecord(transcript_data') # IsErrorRecord(transcript_data')
        \/ pc' = "stopped" /\ stopReason' = "interrupt"

\* C1: a step of fetch_transcript either stays inside fetch_transcript or
\* returns exactly one record, a success record (transcript, no error) or an
\* error record (error, no transcript); it never raises into the loop, and
\* only an external interrupt ends it otherwise.
C1_ExactlyOneRecord == [][FetchReturnsOneRecord]_vars

C1_Witness ==
    /\ pc = "save"
    /\ IsErrorRecord(transcript_data)
    /\ Len(calls) = 3
    /\ calls[3].result = "ConnectionError"

\* C2: once the service has signalled that transcripts are disabled, at the
\* English fetch or during the fallback, the record returned is the error
\* record with the fixed disabled message and the identifier.
C2_DisabledRecord ==
    (HasReturned /\ ServiceSaid("TranscriptsDisabled"))
        => transcript_data = [error |-> DisabledMsg, video_id |-> video_id]

\* C3: after not-found for English, an enumeration and a successful fetch of
\* the selected transcript, the record is a success record whose language is
\* the language code of that transcript and whose text is its segments joined
\* by newlines.
C3_FallbackLanguageCode ==
    (/\ HasReturned
     /\ Len(calls) = 3
     /\ calls[1].result = "NoTranscriptFound"
     /\ calls[2].result = "ok"
     /\ calls[3].result = "ok")
        => /\ IsSuccessRecord(transcript_data)
           /\ transcript_data.language = calls[2].value[1].language_code
           /\ transcript_data.transcript = transcript_text(calls[3].value)

\* C4: every identifier resolve yields is exactly 11 alphanumeric characters,
\* and so is every identifier passed to the service or stored in a record.
C4_CanonicalIdentifier ==
    /\ (Resolved /\ video_id # None) => IsCanonical(video_id)
    /\ \A i \in 1..Len(calls) : IsCanonical(calls[i].arg)
    /\ (HasReturned /\ "video_id" \in DOMAIN transcript_data)
           => IsCanonical(transcript_data.video_id)

\* C5: when resolve yields no identifier (None, or the empty string), the
\* record returned is the error record with the fixed invalid-input message
\* and nothing else: no video_id, no transcript; no service call was made.
C5_InvalidInput ==
    (HasReturned /\ ~Truthy(video_id))
        => /\ transcript_data = [error |-> InvalidInputMsg]
           /\ calls = <<>>

C5_Witness ==
    /\ pc = "save"
    /\ video_id = None
    /\ urlparse(input_string).raised
    /\ "transcript" \notin DOMAIN transcript_data

\* C6: an input of exactly 11 characters, all alphanumeric, is returned by
\* resolve unchanged.
C6_CanonicalUnchanged ==
    (/\ Resolved
     /\ Len(input_string) = 11
     /\ \A i \in 1..Len(input_string) : IsAlnumChar(input_string[i]))
        => video_id = input_string

C6_Witness ==
    /\ pc = "get_transcript"
    /\ input_string = OtherId
    /\ video_id = OtherId

\* C7: for a URL whose host is www.youtube.com and whose path begins with
\* /embed/, resolve returns the third segment of the path.
C7_EmbedThirdSegment ==
    (/\ Resolved
     /\ ~urlparse(input_string).raised
     /\ hostname(urlparse(input_string)) = WwwYoutubeCom
     /\ startswith(urlparse(input_string).path, EmbedPrefix))
        => video_id = split(urlparse(input_string).path, "/")[3]

\* the line is the word exit in any case between any whitespace
IsExitLine(l) ==
    \E a \in 0..Len(l) :
        /\ Len(l) >= a + 4
        /\ \A i \in 1..a : l[i] \in Whitespace
        /\ l[a + 1] \in {"e", "E"}
        /\ l[a + 2] \in {"x", "X"}
        /\ l[a + 3] \in {"i", "I"}
        /\ l[a + 4] \in {"t", "T"}
        /\ \A i \in (a + 5)..Len(l) : l[i] \in Whitespace

LoopStep ==
    /\ (pc # "stopped" /\ pc' = "stopped")
         => \/ stopReason' = "interrupt"
            \/ stopReason' = "exit" /\ pc = "input" /\ IsExitLine(raw_line')
    /\ (pc = "input" /\ pc' = "fetch") => ~IsExitLine(raw_line')
    /\ (pc \in InFetch /\ pc' # "stopped") => pc' \in InFetch \cup {"save", "next"}
    /\ (pc \in {"save", "print"} /\ pc' # "stopped") => pc' \in {"print", "next"}
    /\ (pc = "next" /\ pc' # "stopped") => pc' = "input"
    /\ stopReason' \in {"running", "exit", "interrupt"}

\* C8: the loop stops only on an interrupt or on reading an exit line, an exit
\* line always stops it, every step of processing a line leads on towards the
\* next read unless interrupted, and the loop never ends abnormally.
C8_StopsOnlyOnExitOrInterrupt == [][LoopStep]_vars

C8_Witness ==
    /\ pc = "stopped"
    /\ stopReason = "exit"
    /\ raw_line = <<" ","E","x","i","t"," "," ">>

SaveThenEcho ==
    /\ (pc = "save" /\ pc' # "stopped")
         => /\ pc' = "print"
            /\ transcript_data' = transcript_data
            /\ written'.status \in {"ok", "failed"}
    /\ (pc = "print" /\ pc' # "stopped" /\ IsSuccessRecord(transcript_data))
         => /\ printed' = transcript_data.transcript
            /\ transcript_data' = transcript_data

\* C9: the save step returns to the loop whether or not the write failed and
\* leaves the record as it was, and the print step then prints the transcript
\* of a success record.
C9_SaveFailureSwallowed == [][SaveThenEcho]_vars

C9_Witness ==
    /\ pc = "next"
    /\ written.status = "failed"
    /\ IsSuccessRecord(transcript_data)
    /\ printed = transcript_data.transcript
    /\ Len(printed) > 0

\* C10: the service calls of one invocation are, in order, at most one English
\* fetch, then at most one enumeration made only after the English fetch
\* raised not-found, then at most one fetch of the selected transcript; no
\* call is made without an identifier, and no call follows a failed call
\* other than the not-found of the English fetch.
C10_CallOrder ==
    /\ calls # <<>> => Truthy(video_id)
    /\ Len(calls) <= 3
    /\ \A i \in 1..Len(calls) :
         /\ calls[i].arg = video_id
         /\ calls[i].op = CASE i = 1 -> "get_transcript"
                            [] i = 2 -> "list_transcripts"
                            [] OTHER -> "fetch"
         /\ i < Len(calls) =>
              calls[i].result = IF i = 1 THEN "NoTranscriptFound" ELSE "ok"

C10_Witness ==
    /\ pc = "save"
    /\ Len(calls) = 2
    /\ calls[1].result = "NoTranscriptFound"
    /\ calls[2].result = "TranscriptsDisabled"

====
